---- MODULE Spec2Model ----
(***************************************************************************)
(* Charades._generate_examples (src/charades.py, src/charadesMeddled.py):   *)
(* the generator that reads the annotation CSV row by row and yields        *)
(* (idx, record) pairs.  The two source files hold the same generator; the  *)
(* line numbers below are those of src/charades.py.                         *)
(*                                                                          *)
(* A Python str is a sequence of one-character strings.  Python objects     *)
(* whose type matters are tagged records: [str |-> s], [int |-> i],         *)
(* [none |-> TRUE].  A float is the exact decimal [mant, frac] =            *)
(* mant / 10^frac with no trailing zero in the fraction.                    *)
(***************************************************************************)
EXTENDS Integers, Sequences, FiniteSets, TLC

VARIABLES csv, pos, file, gen, idx, yielded, err, caller, run, prev

vars == <<csv, pos, file, gen, idx, yielded, err, caller, run, prev>>

(* ------------------------------ bounds --------------------------------- *)

\* longest 'actions' field enumerated exhaustively
MaxLen == 5
\* longest 'quality' / 'relevance' field enumerated exhaustively
MaxIntLen == 2
\* longest 'objects' / 'descriptions' field enumerated exhaustively
MaxListLen == 2
\* most data rows in a CSV built from the sample rows
MaxRows == 3

(* --------------------------- Python values ----------------------------- *)

PyStr(s) == [str |-> s]

PyInt(i) == [int |-> i]

PyNone == [none |-> TRUE]

\* a row (a dict of the row's cells) as a Python object
PyRow(r) == [row |-> r]

Digits == {"0", "1", "2", "3", "4", "5", "6", "7", "8", "9"}

DigitVal(c) ==
    CASE c = "0" -> 0 [] c = "1" -> 1 [] c = "2" -> 2 [] c = "3" -> 3
      [] c = "4" -> 4 [] c = "5" -> 5 [] c = "6" -> 6 [] c = "7" -> 7
      [] c = "8" -> 8 [] c = "9" -> 9

AllDigits(s) == \A i \in 1..Len(s) : s[i] \in Digits

RECURSIVE DecimalValue(_)
DecimalValue(s) ==
    IF s = <<>> THEN 0
    ELSE 10 * DecimalValue(SubSeq(s, 1, Len(s) - 1)) + DigitVal(s[Len(s)])

\* str.strip() / the whitespace int() and float() ignore around a literal
RECURSIVE LStrip(_)
LStrip(s) == IF s # <<>> /\ Head(s) = " " THEN LStrip(Tail(s)) ELSE s

RECURSIVE RStrip(_)
RStrip(s) ==
    IF s # <<>> /\ s[Len(s)] = " " THEN RStrip(SubSeq(s, 1, Len(s) - 1)) ELSE s

Strip(s) == RStrip(LStrip(s))

\* a literal without its optional sign
Unsigned(s) == IF s # <<>> /\ Head(s) \in {"+", "-"} THEN Tail(s) ELSE s

Sign(s) == IF s # <<>> /\ Head(s) = "-" THEN -1 ELSE 1

NoError == [exc |-> "None", args |-> <<>>]

ValueError(s) == [exc |-> "ValueError", args |-> <<PyStr(s)>>]

KeyError(k) == [exc |-> "KeyError", args |-> <<PyStr(k)>>]

AttributeError(name) == [exc |-> "AttributeError", args |-> <<PyStr(name)>>]

\* int(s): surrounding whitespace ignored, optional sign, decimal digits
PyIntParse(s) ==
    LET body == Unsigned(Strip(s))
    IN  IF body # <<>> /\ AllDigits(body)
        THEN [ok |-> TRUE, val |-> Sign(Strip(s)) * DecimalValue(body)]
        ELSE [ok |-> FALSE, exc |-> ValueError(s)]

CountOf(s, c) == Cardinality({i \in 1..Len(s) : s[i] = c})

IndexOfChar(s, c) == CHOOSE i \in 1..Len(s) : s[i] = c /\ \A j \in 1..(i - 1) : s[j] # c

RECURSIVE Normalize(_, _)
Normalize(mant, frac) ==
    IF frac > 0 /\ mant % 10 = 0 THEN Normalize(mant \div 10, frac - 1)
    ELSE [mant |-> mant, frac |-> frac]

\* float(s) for decimal literals: digits with at most one '.', at least one
\* digit, optional sign, surrounding whitespace ignored
PyFloatParse(s) ==
    LET body == Unsigned(Strip(s))
        dots == CountOf(body, ".")
        ip   == IF dots = 1 THEN SubSeq(body, 1, IndexOfChar(body, ".") - 1) ELSE body
        fp   == IF dots = 1 THEN SubSeq(body, IndexOfChar(body, ".") + 1, Len(body)) ELSE <<>>
    IN  IF dots <= 1 /\ AllDigits(ip) /\ AllDigits(fp) /\ Len(ip) + Len(fp) > 0
        THEN [ok |-> TRUE,
              val |-> LET n == Normalize(DecimalValue(ip \o fp), Len(fp))
                      IN  [mant |-> Sign(Strip(s)) * n.mant, frac |-> n.frac]]
        ELSE [ok |-> FALSE, exc |-> ValueError(s)]

\* str.split(sep) with a one-character separator
RECURSIVE SplitFrom(_, _, _)
SplitFrom(s, sep, cur) ==
    IF s = <<>> THEN <<cur>>
    ELSE IF Head(s) = sep THEN <<cur>> \o SplitFrom(Tail(s), sep, <<>>)
    ELSE SplitFrom(Tail(s), sep, Append(cur, Head(s)))

Split(s, sep) == SplitFrom(s, sep, <<>>)

\* os.path.join(a, b) (posixpath)
PathJoin(a, b) ==
    IF b # <<>> /\ Head(b) = "/" THEN b
    ELSE IF a = <<>> \/ a[Len(a)] = "/" THEN a \o b
    ELSE a \o <<"/">> \o b

(* --------------------------- the class table --------------------------- *)

\* CHARADES_CLASSES: class code -> class name, in its enumeration order
CHARADES_CLASSES ==
    << << <<"c", "1">>,           <<"h", "o", "l", "d">> >>,
       << <<"c", "1", "1">>,      <<"p", "u", "t">> >>,
       << <<"c", "0", "9", "2">>, <<"s", "i", "t">> >>,
       << <<"c", "1", "4", "7">>, <<"r", "u", "n">> >> >>

HasKey(code) == \E i \in 1..Len(CHARADES_CLASSES) : CHARADES_CLASSES[i][1] = code

KeyIndex(code) == CHOOSE i \in 1..Len(CHARADES_CLASSES) : CHARADES_CLASSES[i][1] = code

\* the mutant of Lookup: the zero-based position of the code in the table
LookupIndex(code) == PyInt(KeyIndex(code) - 1)

\* CHARADES_CLASSES[code] for a code the table has
Lookup(code) == PyStr(CHARADES_CLASSES[KeyIndex(code)][2])

(* ------------------------------ the rows ------------------------------- *)

\* the header's columns, in file order; a short line leaves the later ones None
Column ==
    [id |-> 1, subject |-> 2, scene |-> 3, quality |-> 4, relevance |-> 5,
     verified |-> 6, script |-> 7, objects |-> 8, descriptions |-> 9,
     actions |-> 10, length |-> 11]

IsNone(row, col) == Column[col] > row.ncols

video_folder == <<"/", "v">>


(* --------------------------- parsing one row --------------------------- *)

\* the mutant of KeepToken: no token is skipped
KeepEveryToken(class_label) == TRUE

\* the mutant of TimingParts: the sub-tokens in reverse order
TimingPartsReversed(parts) == [k \in 1..(Len(parts) - 1) |-> parts[Len(parts) + 1 - k]]

\* line 119: class_label.split(" ")[1:]
TimingParts(parts) == Tail(parts)

\* line 119: list(map(float, ...)), failing at the first sub-token float() rejects
RECURSIVE MapFloat(_, _)
MapFloat(parts, done) ==
    IF parts = <<>> THEN [ok |-> TRUE, vals |-> done]
    ELSE LET f == PyFloatParse(Head(parts))
         IN  IF f.ok THEN MapFloat(Tail(parts), Append(done, f.val))
             ELSE [ok |-> FALSE, exc |-> f.exc]

\* the mutant of AppendTimings: an empty timing list is not appended
AppendNonEmptyTimings(action_timings, timings) ==
    IF timings = <<>> THEN action_timings ELSE Append(action_timings, timings)

\* line 120: action_timings.append(timings)
AppendTimings(action_timings, timings) == Append(action_timings, timings)

\* the mutant of KeepToken: a token whose class code is unknown is skipped too
KeepKnownToken(class_label) ==
    Len(class_label) # 0 /\ HasKey(Split(class_label, " ")[1])

\* line 116: an empty token is skipped
KeepToken(class_label) == Len(class_label) # 0

\* lines 114-120: the loop over row["actions"].split(";")
RECURSIVE ActionsLoop(_, _, _)
ActionsLoop(tokens, labels, action_timings) ==
    IF tokens = <<>>
    THEN [ok |-> TRUE, labels |-> labels, action_timings |-> action_timings]
    ELSE LET class_label == Head(tokens)
             parts == Split(class_label, " ")
         IN  IF ~KeepToken(class_label)
             THEN ActionsLoop(Tail(tokens), labels, action_timings)
             ELSE IF ~HasKey(parts[1])
             THEN [ok |-> FALSE, exc |-> KeyError(parts[1])]
             ELSE LET t == MapFloat(TimingParts(parts), <<>>)
                  IN  IF ~t.ok THEN [ok |-> FALSE, exc |-> t.exc]
                      ELSE ActionsLoop(Tail(tokens),
                                       Append(labels, Lookup(parts[1])),
                                       AppendTimings(action_timings, t.vals))

\* the mutant of IsEmptyField: a whitespace-only field counts as empty
IsBlankField(s) == Len(Strip(s)) = 0

\* lines 127-128: len(row[...]) != 0 ... else -100
IsEmptyField(s) == Len(s) = 0

\* lines 127-128: int(row[...]) if len(row[...]) != 0 else -100
Score(s) == IF IsEmptyField(s) THEN [ok |-> TRUE, val |-> -100] ELSE PyIntParse(s)

\* the mutant of SplitList: empty elements are dropped
SplitListFiltered(s) == SelectSeq(Split(s, ";"), LAMBDA e : e # <<>>)

\* lines 131-132: row[...].split(";")
SplitList(s) == Split(s, ";")

\* lines 111-136: one iteration of the loop body up to the yield
ParseRow(row, folder) ==
    IF IsNone(row, "actions")
    THEN [ok |-> FALSE, exc |-> AttributeError(<<"s", "p", "l", "i", "t">>)]
    ELSE LET a == ActionsLoop(Split(row.actions, ";"), <<>>, <<>>)
             q == Score(row.quality)
             r == Score(row.relevance)
         IN  IF ~a.ok THEN [ok |-> FALSE, exc |-> a.exc]
             ELSE IF ~q.ok THEN [ok |-> FALSE, exc |-> q.exc]
             ELSE IF ~r.ok THEN [ok |-> FALSE, exc |-> r.exc]
             ELSE [ok |-> TRUE,
                   record |->
                     [video_id |-> row.id,
                      video |-> PathJoin(folder, row.id \o <<".", "m", "p", "4">>),
                      subject |-> row.subject,
                      scene |-> row.scene,
                      quality |-> q.val,
                      relevance |-> r.val,
                      verified |-> row.verified,
                      script |-> row.script,
                      objects |-> SplitList(row.objects),
                      descriptions |-> SplitList(row.descriptions),
                      labels |-> a.labels,
                      action_timings |-> a.action_timings,
                      length |-> IF IsNone(row, "length") THEN PyNone
                                 ELSE PyStr(row.length)]]

(* ------------------------------ the input ------------------------------ *)

StringsUpTo(alphabet, n) == UNION {[1..k -> alphabet] : k \in 0..n}

BaseRow ==
    [ncols |-> 11, id |-> <<"A", "O">>, subject |-> <<"K">>, scene |-> <<"S">>,
     quality |-> <<"5">>, relevance |-> <<"7">>, verified |-> <<"Y">>,
     script |-> <<"t">>, objects |-> <<"b", ";", "c">>, descriptions |-> <<"d">>,
     actions |-> <<"c", "1", " ", "1", ".", "0">>, length |-> <<"9", ".", "5">>]

\* "c092 11.0 13.0;c147 0.0 5.0", objects "b;c;"
SampleTwoActions ==
    [BaseRow EXCEPT
       !.actions = <<"c", "0", "9", "2", " ", "1", "1", ".", "0", " ", "1", "3", ".", "0",
                     ";", "c", "1", "4", "7", " ", "0", ".", "0", " ", "5", ".", "0">>,
       !.objects = <<"b", ";", "c", ";">>]

SampleEmpty ==
    [BaseRow EXCEPT !.actions = <<>>, !.quality = <<>>, !.relevance = <<>>,
                    !.objects = <<>>, !.descriptions = <<>>]

\* "czzz 1.0 2.0"
SampleUnknownCode ==
    [BaseRow EXCEPT !.actions = <<"c", "z", "z", "z", " ", "1", ".", "0", " ", "2", ".", "0">>]

SampleBadTiming ==
    [BaseRow EXCEPT !.actions = <<"c", "1", "1", " ", "1", ".", "0", " ", "x">>]

SampleBadQuality == [BaseRow EXCEPT !.quality = <<"x">>]

SampleBlankRelevance == [BaseRow EXCEPT !.relevance = <<" ">>, !.id = <<"B">>]

\* a short line: the cells from 'actions' on are missing
SampleNoActions == [BaseRow EXCEPT !.ncols = 9]

\* a short line: only 'length' is missing
\* actions "c11;;c1 1.5"
SampleNoLength ==
    [BaseRow EXCEPT !.ncols = 10,
                    !.actions = <<"c", "1", "1", ";", ";", "c", "1", " ", "1", ".", "5">>]

SampleRows ==
    {SampleTwoActions, SampleEmpty, SampleUnknownCode, SampleBadTiming,
     SampleBadQuality, SampleBlankRelevance, SampleNoActions, SampleNoLength}

ActionChars == {"c", "1", ".", " ", ";"}

IntChars == {"1", "-", ".", " ", "c"}

ListChars == {"b", ";", " "}

ExhaustiveRows ==
    {[BaseRow EXCEPT !.actions = a] : a \in StringsUpTo(ActionChars, MaxLen)}
    \cup {[BaseRow EXCEPT !.quality = q, !.relevance = r] :
            q \in StringsUpTo(IntChars, MaxIntLen), r \in StringsUpTo(IntChars, MaxIntLen)}
    \cup {[BaseRow EXCEPT !.objects = o, !.descriptions = d] :
            o \in StringsUpTo(ListChars, MaxListLen), d \in StringsUpTo(ListChars, MaxListLen)}

\* the data rows csv.DictReader delivers, in file order
CsvFiles ==
    UNION {[1..n -> SampleRows] : n \in 0..MaxRows}
    \cup {<<r>> : r \in ExhaustiveRows}

(* ---------------------------- the generator ---------------------------- *)

Init ==
    /\ csv \in CsvFiles
    /\ pos = 0
    /\ file = "unopened"
    /\ gen = "created"
    /\ idx = 0
    /\ yielded = <<>>
    /\ err = NoError
    /\ caller = "iterating"
    /\ run = 1
    /\ prev = [yielded |-> <<>>, err |-> NoError]

\* the mutant of Propagate: the error is wrapped with the row's index and the row
PropagateWithContext(exc, i, row) ==
    [exc EXCEPT !.args = @ \o <<PyInt(i), PyRow(row)>>]

\* lines 110-138: no try/except, the exception leaves the generator as raised
Propagate(exc, i, row) == exc

\* the mutant of IdxAtStart: idx is not reset when a generator starts
IdxCarriedOver == idx

\* line 109: idx = 0
IdxAtStart == 0

\* the mutant of NextIdx: idx is not incremented
SameIdx(i) == i

\* line 138: idx += 1
NextIdx(i) == i + 1

\* the mutant of FileOnExit: leaving the with block leaves the file open
FileLeftOpen == "open"

\* line 107: the with statement closes csv_file when its block is left
FileOnExit == "closed"

\* lines 110-138: `for row in reader` from the loop head to the next yield,
\* to the end of the rows, or to the exception a row raises
LoopStep(i) ==
    /\ idx' = i
    /\ UNCHANGED <<csv, caller, run, prev>>
    /\ IF pos = Len(csv)
       THEN /\ gen' = "returned"
            /\ file' = FileOnExit
            /\ UNCHANGED <<pos, yielded, err>>
       ELSE LET row == csv[pos + 1]
                r == ParseRow(row, video_folder)
            IN  /\ pos' = pos + 1
                /\ IF r.ok
                   THEN /\ gen' = "suspended"
                        /\ file' = "open"
                        /\ yielded' = Append(yielded, <<i, r.record>>)
                        /\ err' = err
                   ELSE /\ gen' = "raised"
                        /\ file' = FileOnExit
                        /\ err' = Propagate(r.exc, i, row)
                        /\ yielded' = yielded

\* the first next(): lines 107-109, then the loop
FirstNext ==
    /\ caller = "iterating"
    /\ gen = "created"
    /\ LoopStep(IdxAtStart)

\* a later next(): line 138 after the yield, then the loop
ResumeNext ==
    /\ caller = "iterating"
    /\ gen = "suspended"
    /\ LoopStep(NextIdx(idx))

\* the caller stops calling next() and keeps the suspended generator
Stop ==
    /\ caller = "iterating"
    /\ gen = "suspended"
    /\ caller' = "stopped"
    /\ UNCHANGED <<csv, pos, file, gen, idx, yielded, err, run, prev>>

\* close(), or the finalizer of a dropped generator: GeneratorExit is raised at
\* the yield and the with block is left; a generator never started runs nothing
Close ==
    /\ gen \in {"created", "suspended"}
    /\ gen' = "closed"
    /\ file' = IF gen = "suspended" THEN FileOnExit ELSE file
    /\ caller' = "stopped"
    /\ UNCHANGED <<csv, pos, idx, yielded, err, run, prev>>

\* a second call of _generate_examples on the same file, after a complete run:
\* a new generator and a freshly opened stream
Reopen ==
    /\ run = 1
    /\ gen \in {"returned", "raised"}
    /\ prev' = [yielded |-> yielded, err |-> err]
    /\ run' = 2
    /\ gen' = "created"
    /\ file' = "unopened"
    /\ pos' = 0
    /\ yielded' = <<>>
    /\ err' = NoError
    /\ caller' = "iterating"
    /\ UNCHANGED <<csv, idx>>

Next == FirstNext \/ ResumeNext \/ Stop \/ Close \/ Reopen

Spec == Init /\ [][Next]_vars

(* ------------------------- reading the history ------------------------- *)

Range(seq) == {seq[i] : i \in DOMAIN seq}

RECURSIVE Join(_, _)
Join(parts, sep) ==
    IF Len(parts) = 0 THEN <<>>
    ELSE IF Len(parts) = 1 THEN parts[1]
    ELSE parts[1] \o <<sep>> \o Join(Tail(parts), sep)

\* the record of the k-th pair the caller received, and the row it is read against
RecordAt(k) == yielded[k][2]

IndexAt(k) == yielded[k][1]

NonEmptyTokens(s) == SelectSeq(Split(s, ";"), LAMBDA t : t # <<>>)

SubTokens(token) == Split(token, " ")

TokenWellFormed(token) ==
    /\ HasKey(SubTokens(token)[1])
    /\ \A m \in 2..Len(SubTokens(token)) : PyFloatParse(SubTokens(token)[m]).ok

\* an optionally signed run of digits, with blanks allowed around it
IsIntegerLiteral(s) ==
    \E a \in 0..Len(s), b \in 0..Len(s) :
        /\ a < b
        /\ \A i \in 1..a : s[i] = " "
        /\ \A i \in (b + 1)..Len(s) : s[i] = " "
        /\ \/ \A i \in (a + 1)..b : s[i] \in Digits
           \/ /\ a + 1 < b
              /\ s[a + 1] \in {"+", "-"}
              /\ \A i \in (a + 2)..b : s[i] \in Digits

IntegerLiteralValue(s) ==
    LET digits == SelectSeq(s, LAMBDA c : c \in Digits)
    IN  IF "-" \in Range(s) THEN 0 - DecimalValue(digits) ELSE DecimalValue(digits)

ScoreParses(s) == s = <<>> \/ IsIntegerLiteral(s)

\* what makes a row's parse fail, read off the row
RowFails(row) ==
    \/ IsNone(row, "actions")
    \/ \E j \in 1..Len(NonEmptyTokens(row.actions)) :
          ~TokenWellFormed(NonEmptyTokens(row.actions)[j])
    \/ ~ScoreParses(row.quality)
    \/ ~ScoreParses(row.relevance)

Finished == gen \in {"returned", "raised", "closed"}

(* ------------------------------ the claims ----------------------------- *)

\* C1: in every record yielded, 'labels' and 'action_timings' have the same
\* length, whatever the tokens of the row's 'actions' field are.
C1_LabelsAlignedWithTimings ==
    \A k \in 1..Len(yielded) :
        Len(RecordAt(k).labels) = Len(RecordAt(k).action_timings)

\* a record with two labels whose timing lists are empty and non-empty, from a
\* field that also holds an empty token
C1_Witness ==
    \E k \in 1..Len(yielded) :
        /\ Len(Split(csv[k].actions, ";")) = 3
        /\ Len(RecordAt(k).labels) = 2
        /\ RecordAt(k).action_timings = << <<>>, <<[mant |-> 15, frac |-> 1]>> >>

\* C2: a yielded record has one label and one timing list per non-empty token of
\* 'actions', in token order: the label is the table's entry for the token's first
\* sub-token, the timing list the other sub-tokens as floats in order; a row whose
\* 'actions' is empty is yielded with both lists empty.
C2_OnePerNonEmptyToken ==
    /\ \A k \in 1..Len(yielded) :
          LET tokens == NonEmptyTokens(csv[k].actions)
          IN  /\ Len(RecordAt(k).labels) = Len(tokens)
              /\ Len(RecordAt(k).action_timings) = Len(tokens)
              /\ \A j \in 1..Len(tokens) :
                    LET parts == SubTokens(tokens[j])
                    IN  /\ HasKey(parts[1])
                        /\ RecordAt(k).labels[j] = Lookup(parts[1])
                        /\ RecordAt(k).action_timings[j]
                             = [m \in 1..(Len(parts) - 1) |-> PyFloatParse(parts[m + 1]).val]
    /\ \A k \in 1..pos :
          (/\ ~IsNone(csv[k], "actions")
           /\ csv[k].actions = <<>>
           /\ ScoreParses(csv[k].quality)
           /\ ScoreParses(csv[k].relevance))
          => /\ k <= Len(yielded)
             /\ RecordAt(k).labels = <<>>
             /\ RecordAt(k).action_timings = <<>>

\* "c092 11.0 13.0;c147 0.0 5.0" gives the two labels and [[11.0, 13.0], [0.0, 5.0]]
C2_Witness ==
    \E k \in 1..Len(yielded) :
        /\ csv[k] = SampleTwoActions
        /\ RecordAt(k).labels = <<Lookup(<<"c", "0", "9", "2">>), Lookup(<<"c", "1", "4", "7">>)>>
        /\ RecordAt(k).action_timings
             = << <<[mant |-> 11, frac |-> 0], [mant |-> 13, frac |-> 0]>>,
                  <<[mant |-> 0, frac |-> 0], [mant |-> 5, frac |-> 0]>> >>

\* C3 as stated: every label of a yielded record is an integer, the zero-based
\* position of the token's class code in the table.
C3_LabelIsTableIndex ==
    \A k \in 1..Len(yielded) :
        \A j \in 1..Len(RecordAt(k).labels) :
            /\ RecordAt(k).labels[j] \in {PyInt(i) : i \in 0..(Len(CHARADES_CLASSES) - 1)}
            /\ RecordAt(k).labels[j]
                 = PyInt(KeyIndex(SubTokens(NonEmptyTokens(csv[k].actions)[j])[1]) - 1)

\* C3 amended: every label of a yielded record is the value the table maps the
\* token's class code to (the class name, a str), not the code's position.
C3_LabelIsTableValue ==
    \A k \in 1..Len(yielded) :
        \A j \in 1..Len(RecordAt(k).labels) :
            LET i == KeyIndex(SubTokens(NonEmptyTokens(csv[k].actions)[j])[1])
            IN  /\ RecordAt(k).labels[j] = PyStr(CHARADES_CLASSES[i][2])
                /\ RecordAt(k).labels[j] # PyInt(i - 1)

\* a record whose label is the name of the table's second entry
C3_Witness ==
    \E k \in 1..Len(yielded) :
        /\ csv[k].actions = <<"c", "1", "1">>
        /\ RecordAt(k).labels = <<PyStr(<<"p", "u", "t">>)>>

\* what C4 says of row k, qEmpty and rEmpty telling which fields count as empty
C4_Outcome(k, qEmpty, rEmpty) ==
    LET q == csv[k].quality
        r == csv[k].relevance
        qParses == qEmpty \/ IsIntegerLiteral(q)
        rParses == rEmpty \/ IsIntegerLiteral(r)
    IN  IF qParses /\ rParses
        THEN /\ k <= Len(yielded)
             /\ RecordAt(k).quality = (IF qEmpty THEN -100 ELSE IntegerLiteralValue(q))
             /\ RecordAt(k).relevance = (IF rEmpty THEN -100 ELSE IntegerLiteralValue(r))
        ELSE /\ k = Len(yielded) + 1
             /\ err.exc = "ValueError"
             /\ err.args = <<PyStr(IF qParses THEN r ELSE q)>>

C4_ActionsParse(k) ==
    /\ ~IsNone(csv[k], "actions")
    /\ \A j \in 1..Len(NonEmptyTokens(csv[k].actions)) :
          TokenWellFormed(NonEmptyTokens(csv[k].actions)[j])

\* C4 as stated: a 'quality' or 'relevance' field that is empty after trimming
\* gives -100, an integer literal gives that integer, anything else fails the row.
C4_TrimmedEmptyIsSentinel ==
    \A k \in 1..pos :
        C4_ActionsParse(k)
        => C4_Outcome(k, Strip(csv[k].quality) = <<>>, Strip(csv[k].relevance) = <<>>)

\* C4 amended: only the empty string gives -100; a non-empty field goes through
\* int(), so an integer literal (blanks around it allowed) gives that integer and
\* anything else, a whitespace-only field included, fails the row with ValueError.
C4_EmptyIsSentinel ==
    \A k \in 1..pos :
        C4_ActionsParse(k)
        => C4_Outcome(k, csv[k].quality = <<>>, csv[k].relevance = <<>>)

\* a record with both sentinels was yielded, then a whitespace-only field failed
C4_Witness ==
    /\ pos = 2
    /\ Len(yielded) = 1
    /\ RecordAt(1).quality = -100
    /\ RecordAt(1).relevance = -100
    /\ csv[2].relevance = <<" ">>
    /\ gen = "raised"

\* C5: the pairs yielded carry the indices 0, 1, 2, ..., the pair with index i
\* built from the i-th data row; when the generator returns, every row has been
\* yielded, and it returns whenever no row fails.
C5_IndicesFollowRows ==
    /\ \A k \in 1..Len(yielded) :
          /\ IndexAt(k) = k - 1
          /\ ~RowFails(csv[k])
          /\ RecordAt(k) = ParseRow(csv[k], video_folder).record
    /\ gen = "returned" => Len(yielded) = Len(csv) /\ pos = Len(csv)
    /\ (\A k \in 1..Len(csv) : ~RowFails(csv[k])) => gen # "raised"
    /\ Len(yielded) <= pos /\ pos <= Len(csv)

\* three rows were yielded and the sequence ended
C5_Witness ==
    /\ gen = "returned"
    /\ Len(yielded) = 3
    /\ RecordAt(1) # RecordAt(2)
    /\ RecordAt(2) # RecordAt(3)

C7_ClosedOnEveryExit == (Finished \/ caller = "stopped") => file # "open"

\* C7 amended: the file is closed when the generator ends: on exhaustion, on a
\* row's error, on close() or finalization; it is open exactly while the generator
\* is suspended at a yield, so a caller that only stops iterating leaves it open.
C7_ClosedWhenGeneratorEnds ==
    /\ gen \in {"returned", "raised"} => file = "closed"
    /\ gen = "closed" => file = (IF pos = 0 THEN "unopened" ELSE "closed")
    /\ gen = "suspended" <=> file = "open"
    /\ file = "unopened" => gen \in {"created", "closed"} /\ pos = 0

\* the caller closed the generator with rows left, and the file is closed
C7_Witness ==
    /\ gen = "closed"
    /\ 1 <= pos /\ pos < Len(csv)
    /\ file = "closed"

\* C8: 'objects' and 'descriptions' are the field split on ';' with nothing
\* dropped: n separators give n + 1 elements that join back to the field, while
\* 'labels' has one element per non-empty token of 'actions' only.
C8_ListsSplitUnfiltered ==
    \A k \in 1..Len(yielded) :
        /\ \A f \in {"objects", "descriptions"} :
              /\ Len(RecordAt(k)[f]) = CountOf(csv[k][f], ";") + 1
              /\ Join(RecordAt(k)[f], ";") = csv[k][f]
              /\ \A e \in Range(RecordAt(k)[f]) : ";" \notin Range(e)
        /\ Len(RecordAt(k).labels)
             = Cardinality({i \in DOMAIN Split(csv[k].actions, ";") :
                               Split(csv[k].actions, ";")[i] # <<>>})

\* "b;c;" gives ["b", "c", ""] and the empty string gives [""]
C8_Witness ==
    \E k \in 1..Len(yielded), m \in 1..Len(yielded) :
        /\ RecordAt(k).objects = << <<"b">>, <<"c">>, <<>> >>
        /\ csv[m].objects = <<>>
        /\ RecordAt(m).objects = << <<>> >>
        /\ RecordAt(m).labels = <<>>

\* C9 as stated: the error reaching the caller carries the failing row's index
\* and the raw row.
C9_ErrorCarriesRowContext ==
    gen = "raised"
    => /\ PyInt(pos - 1) \in Range(err.args)
       /\ PyRow(csv[pos]) \in Range(err.args)

\* C9 amended: the error reaching the caller is the KeyError, ValueError or
\* AttributeError of the failing lookup or conversion, carrying only the key or
\* literal it rejected (or the attribute missing on None): no index, no row.
C9_ErrorCarriesOnlyOffender ==
    gen = "raised"
    => /\ err.exc \in {"KeyError", "ValueError", "AttributeError"}
       /\ Len(err.args) = 1
       /\ PyInt(pos - 1) \notin Range(err.args)
       /\ PyRow(csv[pos]) \notin Range(err.args)
       /\ IF IsNone(csv[pos], "actions")
          THEN err = AttributeError(<<"s", "p", "l", "i", "t">>)
          ELSE \E s \in {csv[pos].quality, csv[pos].relevance}
                         \cup UNION {Range(SubTokens(t)) : t \in Range(Split(csv[pos].actions, ";"))} :
                  err.args[1] = PyStr(s)

\* the second row fails on a timing that is no float, after one pair
C9_Witness ==
    /\ gen = "raised"
    /\ pos = 2
    /\ csv[2] = SampleBadTiming
    /\ err = ValueError(<<"x">>)

====
